---------------------------- MODULE Spec2Model ----------------------------
(***************************************************************************)
(* A model of the HR write-up system (src/app.py): the quarter standing    *)
(* engine (quarter keys, late-arrival points, standing tiers, quarterly    *)
(* totals, standing alerts) and the record store as the manager and admin  *)
(* screens drive it.                                                       *)
(*                                                                         *)
(* Text is modelled as a sequence of one-character strings, so that        *)
(* formatting (isoformat, quarter_key) and parsing (fromisoformat,         *)
(* _sort_key) are computed, character by character, as the code does.      *)
(* A value read from a row of the store is a tagged record: JNull, JInt(n) *)
(* or JStr(text).                                                          *)
(***************************************************************************)
EXTENDS Integers, Sequences, FiniteSets, TLC

VARIABLES
    team_members,     \* table team_members: id -> "none" | "active" | "inactive" | "deleted"
    writeups,         \* table writeups: a set of rows
    next_writeup_id,  \* the id the store gives the next inserted write-up
    hooks,            \* [alert, writeup]: is SLACK_*_WEBHOOK_URL non-blank
    slack,            \* the requests.post calls made so far, in order
    mgr,              \* the manager session's run of manager_mode
    adm,              \* the admin session's run of admin_mode
    args,             \* the arguments of the function a specification calls
    ret,              \* its result, NoCall before the call
    users,            \* table users: username -> NoUser | [password, role, is_disabled]
    session_state,    \* st.session_state of a browser session: logged_in, username, role
    admin_browse      \* its admin_browse_cache and admin_browse_index: [cache, index]

storeVars == <<team_members, writeups, next_writeup_id, hooks, slack, mgr, adm, users, session_state, admin_browse>>
vars == <<team_members, writeups, next_writeup_id, hooks, slack, mgr, adm, args, ret, users, session_state, admin_browse>>

-----------------------------------------------------------------------------
(* Values *)

JNull == [t |-> "null"]
JInt(n) == [t |-> "int", v |-> n]
JStr(s) == [t |-> "str", v |-> s]

NoCall == [t |-> "nocall"]

\* Python truthiness of a value read from a row: None, 0 and "" are falsy.
Truthy(j) ==
    CASE j.t = "null" -> FALSE
      [] j.t = "int" -> j.v # 0
      [] j.t = "str" -> j.v # <<>>

\* w.get(key): the value of the row under key, None when the key is absent.
get(w, key) == IF key \in DOMAIN w THEN w[key] ELSE JNull

RECURSIVE SumSeq(_)
SumSeq(s) == IF s = <<>> THEN 0 ELSE Head(s) + SumSeq(Tail(s))

Max(a, b) == IF a >= b THEN a ELSE b

-----------------------------------------------------------------------------
(* Text: decimal digits, formatting and parsing *)

DigitChars == <<"0", "1", "2", "3", "4", "5", "6", "7", "8", "9">>

IsDigit(c) == \E i \in 1..10 : DigitChars[i] = c
DigitVal(c) == (CHOOSE i \in 1..10 : DigitChars[i] = c) - 1

\* str(n) for n >= 0: no padding.
RECURSIVE Str(_)
Str(n) == IF n < 10 THEN <<DigitChars[n + 1]>>
          ELSE Str(n \div 10) \o <<DigitChars[(n % 10) + 1]>>

\* n zero-padded to at least w characters ("%04d", "%02d").
RECURSIVE Pad(_, _)
Pad(n, w) == IF Len(Str(n)) >= w THEN Str(n) ELSE <<"0">> \o Pad(n, w - 1)

AllDigits(s) == s # <<>> /\ \A i \in 1..Len(s) : IsDigit(s[i])

\* int(text) of a run of digits.
RECURSIVE IntOf(_)
IntOf(s) == IF s = <<>> THEN 0
            ELSE 10 * IntOf(SubSeq(s, 1, Len(s) - 1)) + DigitVal(s[Len(s)])

\* int(x or 0) raises ValueError: x is a text that is not empty and not a
\* run of digits.
int_raises(j) == j.t = "str" /\ j.v # <<>> /\ ~AllDigits(j.v)

\* int(x or 0) when it does not raise: 0 for None, 0 and "", the number
\* itself, and the number a run of digits reads as.
IntOr0(j) == IF ~Truthy(j) THEN 0 ELSE IF j.t = "str" THEN IntOf(j.v) ELSE j.v

\* text.replace(old, "")
RECURSIVE Without(_, _)
Without(s, c) == IF s = <<>> THEN <<>>
                 ELSE IF Head(s) = c THEN Without(Tail(s), c)
                 ELSE <<Head(s)>> \o Without(Tail(s), c)

\* text.split() for a text with single spaces: the words, in order.
RECURSIVE SplitWords(_, _)
SplitWords(s, word) ==
    IF s = <<>> THEN (IF word = <<>> THEN <<>> ELSE <<word>>)
    ELSE IF Head(s) = " "
         THEN (IF word = <<>> THEN <<>> ELSE <<word>>) \o SplitWords(Tail(s), <<>>)
         ELSE SplitWords(Tail(s), Append(word, Head(s)))

-----------------------------------------------------------------------------
(* Dates *)

IsLeap(y) == (y % 4 = 0 /\ y % 100 # 0) \/ y % 400 = 0

DaysInMonth(y, m) ==
    IF m = 2 THEN (IF IsLeap(y) THEN 29 ELSE 28)
    ELSE IF m \in {4, 6, 9, 11} THEN 30 ELSE 31

Date(y, m, d) == [year |-> y, month |-> m, day |-> d]

\* date.isoformat(): "YYYY-MM-DD".
isoformat(d) == Pad(d.year, 4) \o <<"-">> \o Pad(d.month, 2) \o <<"-">> \o Pad(d.day, 2)

\* datetime.fromisoformat(text).date() for a date-only text: the date, or
\* JNull where Python raises ValueError.
fromisoformat(s) ==
    IF /\ Len(s) = 10
       /\ s[5] = "-" /\ s[8] = "-"
       /\ AllDigits(SubSeq(s, 1, 4)) /\ AllDigits(SubSeq(s, 6, 7)) /\ AllDigits(SubSeq(s, 9, 10))
    THEN LET y == IntOf(SubSeq(s, 1, 4))
             m == IntOf(SubSeq(s, 6, 7))
             d == IntOf(SubSeq(s, 9, 10))
         IN IF y >= 1 /\ m \in 1..12 /\ d >= 1 /\ d <= DaysInMonth(y, m)
            THEN Date(y, m, d) ELSE JNull
    ELSE JNull

\* parse_iso_date(d): a date, or JNull ("no date") for a missing, empty or
\* unparseable value.
parse_iso_date(d) ==
    IF ~Truthy(d) THEN JNull
    ELSE IF d.t = "str" THEN fromisoformat(d.v)
    ELSE JNull

\* Faulty variant: the quarter number computed as month // 3 + 1
quarter_key_off_by_one(d) ==
    Str(d.year) \o <<" ", "Q">> \o Str(d.month \div 3 + 1)

\* quarter_key(d): "{year} Q{q}" with q = (month - 1) // 3 + 1.
quarter_key(d) ==
    LET q == (d.month - 1) \div 3 + 1
    IN Str(d.year) \o <<" ", "Q">> \o Str(q)

-----------------------------------------------------------------------------
(* Standing tiers *)

BENCHMARKS ==
    [label \in {"Good Standing", "Borderline", "Suspension", "Fired"} |->
        CASE label = "Good Standing" -> [min |-> 0, max |-> 9]
          [] label = "Borderline" -> [min |-> 10, max |-> 19]
          [] label = "Suspension" -> [min |-> 20, max |-> 24]
          [] label = "Fired" -> [min |-> 25, max |-> 1000000000]]

STANDING_ORDER == <<"Good Standing", "Borderline", "Suspension", "Fired">>

Tiers == {STANDING_ORDER[i] : i \in 1..4}

\* standing_label(points), points an integer or None.
standing_label(points) ==
    LET p == IntOr0(points)
    IN IF p < 10 THEN "Good Standing"
       ELSE IF 10 <= p /\ p <= 19 THEN "Borderline"
       ELSE IF 20 <= p /\ p <= 24 THEN "Suspension"
       ELSE "Fired"

-----------------------------------------------------------------------------
(* Late-arrival points *)

\* Faulty variant: the first block starts at 5 minutes
calc_late_points_from_five(minutes_late) ==
    IF minutes_late = JNull THEN 0
    ELSE LET m == minutes_late.v
         IN IF m < 5 THEN 0 ELSE 1 + (m - 5) \div 10

\* calc_late_points(minutes_late), minutes_late an integer or None.
calc_late_points(minutes_late) ==
    IF minutes_late = JNull THEN 0
    ELSE LET m == minutes_late.v
         IN IF m < 6 THEN 0 ELSE 1 + (m - 5) \div 10

-----------------------------------------------------------------------------
(* Quarterly aggregation.  A list of write-ups is a sequence of rows; only *)
(* the fields incident_date and points of a row are read.                  *)

\* bucket[k] = bucket.get(k, 0) + v on a dict kept in insertion order.
bucket_add(bucket, k, v) ==
    IF \E i \in 1..Len(bucket) : bucket[i].quarter = k
    THEN [i \in 1..Len(bucket) |->
            IF bucket[i].quarter = k
            THEN [quarter |-> k, points |-> bucket[i].points + v]
            ELSE bucket[i]]
    ELSE Append(bucket, [quarter |-> k, points |-> v])

\* The loop of build_quarter_totals over the write-ups, from bucket.
RECURSIVE fill_bucket(_, _)
fill_bucket(ws, bucket) ==
    IF ws = <<>> THEN bucket
    ELSE LET w == Head(ws)
             d == parse_iso_date(get(w, "incident_date"))
         IN IF d = JNull
            THEN fill_bucket(Tail(ws), bucket)
            ELSE fill_bucket(Tail(ws), bucket_add(bucket, quarter_key(d), IntOr0(get(w, "points"))))

\* _sort_key(qstr): (int(y), int(q.replace("Q", ""))) of "y q".
sort_key(qstr) ==
    LET parts == SplitWords(qstr, <<>>)
    IN <<IntOf(parts[1]), IntOf(Without(parts[2], "Q"))>>

\* Tuple order of two sort keys.
\* Faulty variant: the years compared as texts, as the order of the quarter
\* keys as strings does
KeyLess_as_text(a, b) ==
    LET RECURSIVE less(_, _)
        less(x, y) ==
            IF y = <<>> THEN FALSE
            ELSE IF x = <<>> THEN TRUE
            ELSE IF Head(x) # Head(y) THEN DigitVal(Head(x)) < DigitVal(Head(y))
            ELSE less(Tail(x), Tail(y))
    IN less(Str(a[1]), Str(b[1])) \/ (a[1] = b[1] /\ a[2] < b[2])

KeyLess(a, b) == a[1] < b[1] \/ (a[1] = b[1] /\ a[2] < b[2])

\* df.sort_values("sort"): the rows in ascending order of their sort key.
RECURSIVE insert_sorted(_, _)
insert_sorted(rows, r) ==
    IF rows = <<>> THEN <<r>>
    ELSE IF KeyLess(sort_key(r.quarter), sort_key(Head(rows).quarter))
         THEN <<r>> \o rows
         ELSE <<Head(rows)>> \o insert_sorted(Tail(rows), r)

RECURSIVE sort_values(_)
sort_values(rows) ==
    IF rows = <<>> THEN <<>>
    ELSE insert_sorted(sort_values(SubSeq(rows, 1, Len(rows) - 1)), rows[Len(rows)])

\* Faulty variant: a later write-up of a quarter replaces the quarter's total
build_quarter_totals_overwrites(ws) ==
    LET RECURSIVE fill(_, _)
        fill(rest, bucket) ==
            IF rest = <<>> THEN bucket
            ELSE LET w == Head(rest)
                     d == parse_iso_date(get(w, "incident_date"))
                 IN IF d = JNull THEN fill(Tail(rest), bucket)
                    ELSE LET k == quarter_key(d)
                             kept == SelectSeq(bucket, LAMBDA r : r.quarter # k)
                         IN fill(Tail(rest), Append(kept, [quarter |-> k, points |-> IntOr0(get(w, "points"))]))
    IN sort_values(fill(ws, <<>>))

\* build_quarter_totals(writeups): the rows (quarter, points) of the frame.
build_quarter_totals(ws) == sort_values(fill_bucket(ws, <<>>))

\* Faulty variant: a write-up without a date counted in every quarter
points_in_quarter_counts_undated(ws, quarter_label) ==
    LET RECURSIVE go(_)
        go(rest) ==
            IF rest = <<>> THEN 0
            ELSE LET w == Head(rest)
                     d == parse_iso_date(get(w, "incident_date"))
                 IN IF d = JNull THEN IntOr0(get(w, "points")) + go(Tail(rest))
                    ELSE IF quarter_key(d) = quarter_label
                         THEN IntOr0(get(w, "points")) + go(Tail(rest))
                         ELSE go(Tail(rest))
    IN go(ws)

\* Faulty variant: the quarter of the year is ignored, the year alone decides
points_in_quarter_by_year(ws, quarter_label) ==
    LET RECURSIVE go(_)
        go(rest) ==
            IF rest = <<>> THEN 0
            ELSE LET w == Head(rest)
                     d == parse_iso_date(get(w, "incident_date"))
                 IN IF d = JNull THEN go(Tail(rest))
                    ELSE IF sort_key(quarter_key(d))[1] = sort_key(quarter_label)[1]
                         THEN IntOr0(get(w, "points")) + go(Tail(rest))
                         ELSE go(Tail(rest))
    IN go(ws)

\* points_in_quarter(writeups, quarter_label)
points_in_quarter(ws, quarter_label) ==
    LET RECURSIVE go(_)
        go(rest) ==
            IF rest = <<>> THEN 0
            ELSE LET w == Head(rest)
                     d == parse_iso_date(get(w, "incident_date"))
                 IN IF d = JNull THEN go(Tail(rest))
                    ELSE IF quarter_key(d) = quarter_label
                         THEN IntOr0(get(w, "points")) + go(Tail(rest))
                         ELSE go(Tail(rest))
    IN go(ws)

\* Faulty variant: the all-time total skips the write-ups without a date
all_time_points_dated_only(ws) ==
    SumSeq([i \in 1..Len(ws) |->
              IF parse_iso_date(get(ws[i], "incident_date")) = JNull THEN 0 ELSE IntOr0(get(ws[i], "points"))])

\* all_time_points(writeups)
all_time_points(ws) == SumSeq([i \in 1..Len(ws) |-> IntOr0(get(ws[i], "points"))])

\* build_quarter_totals(writeups) raises: int() is reached, and raises, for a
\* write-up whose date parses.
build_quarter_totals_raises(ws) ==
    \E i \in 1..Len(ws) :
        /\ parse_iso_date(get(ws[i], "incident_date")) # JNull
        /\ int_raises(get(ws[i], "points"))

\* points_in_quarter(writeups, quarter_label) raises: int() is reached, and
\* raises, for a write-up of the quarter.
points_in_quarter_raises(ws, quarter_label) ==
    \E i \in 1..Len(ws) :
        LET d == parse_iso_date(get(ws[i], "incident_date"))
        IN /\ d # JNull
           /\ quarter_key(d) = quarter_label
           /\ int_raises(get(ws[i], "points"))

\* all_time_points(writeups) raises: int() raises for some write-up.
all_time_points_raises(ws) == \E i \in 1..Len(ws) : int_raises(get(ws[i], "points"))

\* The figures employee_mode shows for one member's write-ups and the
\* selected quarter.
standing_report(ws, selected_quarter) ==
    LET q_total == points_in_quarter(ws, selected_quarter)
    IN [selected_quarter |-> selected_quarter,
        q_total |-> q_total,
        s_label |-> standing_label(JInt(q_total)),
        a_total |-> all_time_points(ws),
        df_q |-> build_quarter_totals(ws)]

-----------------------------------------------------------------------------
(* Slack *)

\* Faulty variant: the failure of requests.post leaves slack_post
slack_post_raises_on_failure(webhook_url, delivered) == webhook_url # "" /\ ~delivered

\* slack_post(webhook_url, text) raises: never, the try/except around
\* requests.post swallows every failure of the delivery.
slack_post_raises(webhook_url, delivered) == FALSE

\* slack_post(webhook_url, text): nothing for a blank URL; otherwise one
\* requests.post, whose failure (delivered = FALSE) is swallowed.
slack_post(posts, webhook_url, text, delivered) ==
    IF webhook_url = "" THEN posts
    ELSE Append(posts, [url |-> webhook_url, text |-> text, delivered |-> delivered])

\* Faulty variant: an alert also when the tier did not change
maybe_post_standing_alert_on_unchanged(posts, h, member_name, quarter_label, prev_label, new_label, q_points, delivered) ==
    IF h.alert = "" THEN posts
    ELSE IF new_label \in {"Borderline", "Suspension", "Fired"}
         THEN slack_post(posts, h.alert,
                         [kind |-> "Standing Alert", member |-> member_name,
                          quarter |-> quarter_label, prev |-> prev_label,
                          new |-> new_label, q_points |-> q_points],
                         delivered)
         ELSE posts

\* maybe_post_standing_alert(...): the posts made, after the call.
maybe_post_standing_alert(posts, h, member_name, quarter_label, prev_label, new_label, q_points, delivered) ==
    IF h.alert = "" THEN posts
    ELSE IF new_label \in {"Borderline", "Suspension", "Fired"} /\ new_label # prev_label
         THEN slack_post(posts, h.alert,
                         [kind |-> "Standing Alert", member |-> member_name,
                          quarter |-> quarter_label, prev |-> prev_label,
                          new |-> new_label, q_points |-> q_points],
                         delivered)
         ELSE posts

-----------------------------------------------------------------------------
(* The store and the sessions at start *)

MaxMembers == 2
MaxWriteups == 2

MemberIds == 1..MaxMembers

ALERT_URL == "https://hooks/alerts"
WRITEUP_URL == "https://hooks/writeups"

\* SLACK_ALERT_WEBHOOK_URL and SLACK_WRITEUP_WEBHOOK_URL: blank or set.
HookConfigs == [alert : {"", ALERT_URL}, writeup : {"", WRITEUP_URL}]

MgrIdle == [pc |-> "idle"]
AdmIdle == [pc |-> "idle"]

\* The usernames of the model: the default admin and one more account.
LAUREN == "Lauren"
Usernames == {LAUREN, "Max"}

NoUser == [t |-> "nouser"]

\* ensure_default_admin(): the row inserted when the users table is empty.
DefaultAdmin == [password |-> "952426", role |-> "admin", is_disabled |-> FALSE]

NoUsers == [u \in Usernames |-> NoUser]

\* The users table once ensure_default_admin() has run on an empty table.
SeededUsers == [NoUsers EXCEPT ![LAUREN] = DefaultAdmin]

\* The defaults of st.session_state.
SessionDefaults == [logged_in |-> FALSE, username |-> "", role |-> ""]

\* defaults: admin_browse_cache = [] and admin_browse_index = 0.
\* admin_browse_ids, the ids of the cache's rows, is written with the cache
\* and never read.
BrowseDefaults == [cache |-> <<>>, index |-> 0]

\* Empty tables of members and write-ups, nothing posted, fresh sessions.
RecordsInit ==
    /\ team_members = [m \in MemberIds |-> "none"]
    /\ writeups = {}
    /\ next_writeup_id = 1
    /\ hooks \in HookConfigs
    /\ slack = <<>>
    /\ mgr = MgrIdle
    /\ adm = AdmIdle
    /\ session_state = SessionDefaults
    /\ admin_browse = BrowseDefaults

\* The same, after the first run of the script seeded the users table.
StoreInit ==
    /\ RecordsInit
    /\ users = SeededUsers

\* The store of a specification that only calls a function.
StoreUnused ==
    /\ StoreInit
    /\ hooks = [alert |-> "", writeup |-> ""]

-----------------------------------------------------------------------------
(* SpecAlert: maybe_post_standing_alert on every pair of tiers *)

AlertMembers == {"Ana", "Ben"}
AlertQuarters == {quarter_key(Date(2025, 1, 15)), quarter_key(Date(2025, 4, 1))}
AlertPoints == {0, 10, 25}

AlertArgs ==
    [member_name : AlertMembers, quarter_label : AlertQuarters,
     prev_label : Tiers, new_label : Tiers, q_points : AlertPoints]

InitAlert ==
    /\ StoreInit
    /\ args \in AlertArgs
    /\ ret = NoCall

CallMaybePostStandingAlert ==
    /\ ret = NoCall
    /\ \E delivered \in BOOLEAN :
         slack' = maybe_post_standing_alert(slack, hooks, args.member_name, args.quarter_label,
                                            args.prev_label, args.new_label, args.q_points,
                                            delivered)
    /\ ret' = JNull
    /\ UNCHANGED <<team_members, writeups, next_writeup_id, hooks, mgr, adm, args, users, session_state, admin_browse>>

NextAlert == CallMaybePostStandingAlert

SpecAlert == InitAlert /\ [][NextAlert]_vars

\* The alert the call is to post, as the posts show it.
AlertPosted ==
    /\ Len(slack) = 1
    /\ slack[1].url = ALERT_URL
    /\ slack[1].text = [kind |-> "Standing Alert", member |-> args.member_name,
                        quarter |-> args.quarter_label, prev |-> args.prev_label,
                        new |-> args.new_label, q_points |-> args.q_points]

\* C1: with an alert sink configured, maybe_post_standing_alert posts an
\* alert iff the new tier is Borderline, Suspension or Fired and differs from
\* the previous tier, and posts nothing else; so never for Good Standing,
\* never for an unchanged tier, always for Borderline -> Suspension or Fired.
C1_AlertIffWatchedAndChanged ==
    (ret # NoCall /\ hooks.alert # "") =>
        /\ AlertPosted <=> (/\ args.new_label \in {"Borderline", "Suspension", "Fired"}
                            /\ args.new_label # args.prev_label)
        /\ ~AlertPosted => slack = <<>>
        /\ args.new_label = "Good Standing" => slack = <<>>
        /\ args.new_label = args.prev_label => slack = <<>>
        /\ (args.prev_label = "Borderline" /\ args.new_label \in {"Suspension", "Fired"})
              => AlertPosted

C1_Witness ==
    /\ ret # NoCall /\ hooks.alert # ""
    /\ args.prev_label = "Borderline" /\ args.new_label = "Suspension"
    /\ AlertPosted

-----------------------------------------------------------------------------
(* SpecStanding: standing_label on point totals *)

MaxTotal == 60

\* None, the totals around every boundary, and large totals up to and past
\* the largest max of BENCHMARKS.
StandingInputs ==
    {JNull} \cup {JInt(p) : p \in (0 - MaxTotal)..MaxTotal}
            \cup {JInt(1000000), JInt(1000000000), JInt(1000000001)}

InitStanding ==
    /\ StoreUnused
    /\ args \in [points : StandingInputs]
    /\ ret = NoCall

CallStandingLabel ==
    /\ ret = NoCall
    /\ ret' = [label |-> standing_label(args.points)]
    /\ UNCHANGED <<storeVars, args>>

NextStanding == CallStandingLabel

SpecStanding == InitStanding /\ [][NextStanding]_vars

\* The total a call classifies: None and negative totals count as 0.
TotalAsClassified(points) == IF points = JNull THEN 0 ELSE Max(points.v, 0)

\* The tier the specification's ranges give a total p >= 0.
TierOfRange(p) ==
    IF p <= 9 THEN "Good Standing"
    ELSE IF p <= 19 THEN "Borderline"
    ELSE IF p <= 24 THEN "Suspension"
    ELSE "Fired"

\* The exact ranges: one tier for every input, Good Standing for 0..9 and
\* for None and negative totals, Borderline for 10..19, Suspension for
\* 20..24, Fired from 25 on.
StandingRangesExact ==
    ret # NoCall =>
        /\ ret.label \in Tiers
        /\ ret.label = TierOfRange(TotalAsClassified(args.points))

\* C3: standing_label returns exactly one of the four tiers with the exact
\* ranges (None and negative totals classified as 0), and the label returned
\* always agrees with the [min, max] range BENCHMARKS gives that label.
C3_LabelAgreesWithBenchmarks ==
    ret # NoCall =>
        /\ StandingRangesExact
        /\ BENCHMARKS[ret.label].min <= TotalAsClassified(args.points)
        /\ TotalAsClassified(args.points) <= BENCHMARKS[ret.label].max

-----------------------------------------------------------------------------
(* SpecLate: calc_late_points on the minutes the form allows *)

MaxMinutesLate == 600

InitLate ==
    /\ StoreUnused
    /\ args \in [minutes_late : {JNull} \cup {JInt(m) : m \in 0..MaxMinutesLate}]
    /\ ret = NoCall

CallCalcLatePoints ==
    /\ ret = NoCall
    /\ ret' = [points |-> calc_late_points(args.minutes_late)]
    /\ UNCHANGED <<storeVars, args>>

NextLate == CallCalcLatePoints

SpecLate == InitLate /\ [][NextLate]_vars

\* C9 as stated: for m in 0..600, calc_late_points(m) is 0 on 0..5, 1 on
\* 6..15, 2 on 16..25, is 1 + floor((m-5)/10) from 6 on, and is
\* non-decreasing.
C9_AsStated ==
    (ret # NoCall /\ args.minutes_late # JNull) =>
        LET m == args.minutes_late.v
            k == ret.points
        IN /\ m \in 0..5 => k = 0
           /\ m \in 6..15 => k = 1
           /\ m \in 16..25 => k = 2
           /\ m >= 6 => (10 * (k - 1) <= m - 5 /\ m - 5 < 10 * k)
           /\ \A m1 \in 0..m : calc_late_points(JInt(m1)) <= k

\* C9 (amended): for m in 0..600, calc_late_points(m) is 0 on 0..5, 1 on
\* 6..14, 2 on 15..24, is 1 + floor((m-5)/10) from 6 on (the k with
\* 10(k-1) <= m-5 < 10k), and is non-decreasing: no smaller m gives more.
C9_LatePointsScale ==
    (ret # NoCall /\ args.minutes_late # JNull) =>
        LET m == args.minutes_late.v
            k == ret.points
        IN /\ m \in 0..5 => k = 0
           /\ m \in 6..14 => k = 1
           /\ m \in 15..24 => k = 2
           /\ m >= 6 => (10 * (k - 1) <= m - 5 /\ m - 5 < 10 * k)
           /\ \A m1 \in 0..m : calc_late_points(JInt(m1)) <= k

C9_Witness ==
    /\ ret # NoCall
    /\ args.minutes_late = JInt(15)
    /\ ret.points = 2

-----------------------------------------------------------------------------
(* SpecQuarter: quarter_key on pairs of dates *)

QuarterDates ==
    {Date(2025, m, 1) : m \in 1..12}
        \cup {Date(2025, 1, 15), Date(2025, 12, 31), Date(2024, 12, 31), Date(2024, 1, 1),
              Date(999, 3, 31), Date(9999, 10, 1)}

InitQuarter ==
    /\ StoreUnused
    /\ args \in [d1 : QuarterDates, d2 : QuarterDates]
    /\ ret = NoCall

CallQuarterKey ==
    /\ ret = NoCall
    /\ ret' = [k1 |-> quarter_key(args.d1), k2 |-> quarter_key(args.d2)]
    /\ UNCHANGED <<storeVars, args>>

NextQuarter == CallQuarterKey

SpecQuarter == InitQuarter /\ [][NextQuarter]_vars

\* The quarter of the year of a month: 1-3 Q1, 4-6 Q2, 7-9 Q3, 10-12 Q4.
QuarterOfMonth(m) ==
    CASE m \in {1, 2, 3} -> 1
      [] m \in {4, 5, 6} -> 2
      [] m \in {7, 8, 9} -> 3
      [] m \in {10, 11, 12} -> 4

\* C10: two dates have the same quarter key iff they have the same year and
\* the same quarter of the year; the quarter a key names is that of the
\* date's month and lies in 1..4; the key reads "{year} Q{quarter}".
C10_SameKeyIffSameYearAndQuarter ==
    ret # NoCall =>
        /\ (ret.k1 = ret.k2) <=>
               (/\ args.d1.year = args.d2.year
                /\ QuarterOfMonth(args.d1.month) = QuarterOfMonth(args.d2.month))
        /\ sort_key(ret.k1) = <<args.d1.year, QuarterOfMonth(args.d1.month)>>
        /\ sort_key(ret.k1)[2] \in 1..4
        /\ args.d1 = Date(2025, 1, 15) => ret.k1 = <<"2", "0", "2", "5", " ", "Q", "1">>
        /\ args.d1 = Date(2025, 4, 1) => ret.k1 = <<"2", "0", "2", "5", " ", "Q", "2">>
        /\ args.d1 = Date(2025, 12, 31) => ret.k1 = <<"2", "0", "2", "5", " ", "Q", "4">>

C10_Witness ==
    /\ ret # NoCall
    /\ args.d1 = Date(2025, 10, 1) /\ args.d2 = Date(2025, 12, 31)
    /\ ret.k1 = ret.k2
    /\ ret.k1 = <<"2", "0", "2", "5", " ", "Q", "4">>

-----------------------------------------------------------------------------
(* SpecTotals: the three aggregations on lists of write-ups *)

MaxLen == 3

\* incident_date values: two dates in consecutive quarters across a year
\* end, a missing date, and a text that is no date (month 13).
TotalsDates ==
    {JStr(isoformat(Date(2024, 12, 31))), JStr(isoformat(Date(2025, 1, 15))),
     JNull, JStr(<<"2", "0", "2", "5", "-", "1", "3", "-", "0", "1">>)}

\* points values: missing, negative (a manual override stores it), 0 and 2.
TotalsPoints == {JNull, JInt(-1), JInt(0), JInt(2)}

TotalsRows == [incident_date : TotalsDates, points : TotalsPoints]

TotalsLists == UNION {[1..n -> TotalsRows] : n \in 0..MaxLen}

\* The quarters of the dates above and a quarter without write-ups.
TotalsQuarters ==
    {quarter_key(Date(2024, 12, 31)), quarter_key(Date(2025, 1, 15)),
     quarter_key(Date(2025, 7, 4))}

InitTotals ==
    /\ StoreUnused
    /\ args \in [writeups : TotalsLists]
    /\ ret = NoCall

CallStandingReport ==
    /\ ret = NoCall
    /\ \E k \in TotalsQuarters : ret' = standing_report(args.writeups, k)
    /\ UNCHANGED <<storeVars, args>>

NextTotals == CallStandingReport

SpecTotals == InitTotals /\ [][NextTotals]_vars

\* parse_iso_date on each incident_date value of the lists.
ParsedDate == [d \in TotalsDates |-> parse_iso_date(d)]

Parses(w) == ParsedDate[w.incident_date] # JNull

\* The points of the write-ups with (dated = TRUE) or without a date that
\* parses.
PointMass(ws, dated) ==
    SumSeq([i \in 1..Len(ws) |-> IF Parses(ws[i]) = dated THEN IntOr0(ws[i].points) ELSE 0])

\* The sum of the points column of a frame of quarter totals.
ColumnSum(df) == SumSeq([i \in 1..Len(df) |-> df[i].points])

\* C6: the points column of build_quarter_totals(ws) sums to the points of
\* the write-ups whose date parses, and all_time_points(ws) exceeds that sum
\* by exactly the points of the write-ups whose date is missing or does not
\* parse.
C6_QuarterSumIsDatedMass ==
    ret # NoCall =>
        /\ ColumnSum(ret.df_q) = PointMass(args.writeups, TRUE)
        /\ ret.a_total - ColumnSum(ret.df_q) = PointMass(args.writeups, FALSE)

C6_Witness ==
    /\ ret # NoCall
    /\ Len(args.writeups) = 3
    /\ ColumnSum(ret.df_q) = 4
    /\ ret.a_total = 6
    /\ Len(ret.df_q) = 1

\* C7 as stated: the quarter totals sum to at most all_time_points(ws), and
\* to exactly all_time_points(ws) iff every write-up has a date that parses.
C7_AsStated ==
    ret # NoCall =>
        /\ ColumnSum(ret.df_q) <= ret.a_total
        /\ (ColumnSum(ret.df_q) = ret.a_total)
              <=> (\A i \in 1..Len(args.writeups) : Parses(args.writeups[i]))

\* C7 (amended): the quarter totals sum to all_time_points(ws) when every
\* write-up has a date that parses, and in general exactly when the
\* write-ups without such a date total 0 points; the sum is at most
\* all_time_points(ws) exactly when those write-ups total 0 or more.
C7_QuarterSumVersusAllTime ==
    ret # NoCall =>
        LET undated == PointMass(args.writeups, FALSE)
        IN /\ (\A i \in 1..Len(args.writeups) : Parses(args.writeups[i]))
                 => ColumnSum(ret.df_q) = ret.a_total
           /\ (ColumnSum(ret.df_q) = ret.a_total) <=> (undated = 0)
           /\ (ColumnSum(ret.df_q) <= ret.a_total) <=> (undated >= 0)

C7_Witness ==
    /\ ret # NoCall
    /\ \E i \in 1..Len(args.writeups) :
          ~Parses(args.writeups[i]) /\ args.writeups[i].points = JInt(0)
    /\ \E i \in 1..Len(args.writeups) :
          Parses(args.writeups[i]) /\ args.writeups[i].points = JInt(2)
    /\ ColumnSum(ret.df_q) = ret.a_total
    /\ ret.a_total = 2

\* The total the frame reports for quarter k, 0 when k has no row.
FrameTotal(df, k) ==
    IF \E i \in 1..Len(df) : df[i].quarter = k
    THEN (CHOOSE r \in {df[i] : i \in 1..Len(df)} : r.quarter = k).points
    ELSE 0

\* C8: points_in_quarter(ws, k) is the total build_quarter_totals(ws) reports
\* for k, and 0 when k has no row, which is when no write-up with a date
\* that parses falls in k.
C8_PointsInQuarterMatchesFrame ==
    ret # NoCall =>
        /\ ret.q_total = FrameTotal(ret.df_q, ret.selected_quarter)
        /\ (\A i \in 1..Len(ret.df_q) : ret.df_q[i].quarter # ret.selected_quarter)
              <=> (\A i \in 1..Len(args.writeups) :
                      Parses(args.writeups[i]) =>
                          quarter_key(ParsedDate[args.writeups[i].incident_date])
                              # ret.selected_quarter)
        /\ \A i, j \in 1..Len(ret.df_q) : ret.df_q[i].quarter = ret.df_q[j].quarter => i = j

C8_Witness ==
    /\ ret # NoCall
    /\ ret.selected_quarter = quarter_key(Date(2025, 1, 15))
    /\ ret.q_total = 2
    /\ Len(ret.df_q) = 2
    /\ \E i \in 1..Len(args.writeups) :
          ~Parses(args.writeups[i]) /\ args.writeups[i].points = JInt(2)

-----------------------------------------------------------------------------
(* Spec: the store under a manager session and an admin session.  The      *)
(* store applies each request as the code sends it; each request is one    *)
(* step, and the steps of the two sessions interleave.                     *)

\* The rows of writeup_categories and writeup_rules (data of the store).
DOCUMENTED == "Documented Conversation"
ATTENDANCE == "Attendance"

Categories == {DOCUMENTED, ATTENDANCE}

Rules ==
    {[category_id |-> ATTENDANCE, rule_name |-> "No Call No Show",
      base_points |-> JInt(8), is_incremental |-> FALSE],
     [category_id |-> ATTENDANCE, rule_name |-> "Late by 6 or more minutes",
      base_points |-> JNull, is_incremental |-> TRUE],
     [category_id |-> DOCUMENTED, rule_name |-> "Coaching",
      base_points |-> JInt(3), is_incremental |-> FALSE]}

\* fetch_rules_for_category(category_id)
fetch_rules_for_category(category_id) == {r \in Rules : r.category_id = category_id}

\* What the manager may enter in the form.
FormMinutes == {0, 16}
FormOverrides == {-1, 10, 25}
FormDates == {Date(2025, 3, 31), Date(2025, 4, 1)}

MANAGER == "Morgan"

\* The order of characters in texts of digits, "-" and " ".
CharCode(c) == IF c = " " THEN 0 ELSE IF c = "-" THEN 1 ELSE 2 + DigitVal(c)

\* Text order (a < b).
RECURSIVE TextLess(_, _)
TextLess(a, b) ==
    IF b = <<>> THEN FALSE
    ELSE IF a = <<>> THEN TRUE
    ELSE IF Head(a) # Head(b) THEN CharCode(Head(a)) < CharCode(Head(b))
    ELSE TextLess(Tail(a), Tail(b))

\* r comes before q under order("incident_date", desc).order("created_at",
\* desc); rows are created in the order of their ids.
RowBefore(r, q) ==
    \/ TextLess(q.incident_date.v, r.incident_date.v)
    \/ (r.incident_date = q.incident_date /\ r.id > q.id)

\* The rows of a set in that order.
RECURSIVE Ordered(_)
Ordered(rows) ==
    IF rows = {} THEN <<>>
    ELSE LET first == CHOOSE r \in rows : \A q \in rows \ {r} : RowBefore(r, q)
         IN <<first>> \o Ordered(rows \ {first})

\* Faulty variant: the write-ups of every member, not only of member_id
fetch_writeups_for_member_of_anyone(table, member_id) == Ordered(table)

\* fetch_writeups_for_member(member_id) on a writeups table.
fetch_writeups_for_member(table, member_id) ==
    Ordered({w \in table : w.team_member_id = member_id})

\* Faulty variant: the inactive members are listed too
fetch_team_members_with_inactive(include_inactive) ==
    {m \in MemberIds : team_members[m] \in {"active", "inactive"}}

\* fetch_team_members("", include_inactive): the ids listed.
fetch_team_members(include_inactive) ==
    {m \in MemberIds :
        /\ team_members[m] \in {"active", "inactive"}
        /\ include_inactive \/ team_members[m] # "inactive"}

\* Faulty variant: the override applies to a documented conversation too
form_points_documented_overridable(category, rule, minutes_late, points_override, entered) ==
    LET auto_points == IF category = DOCUMENTED THEN 0
                       ELSE IF rule.is_incremental
                            THEN calc_late_points(JInt(minutes_late))
                            ELSE IntOr0(rule.base_points)
    IN IF points_override THEN entered ELSE auto_points

\* Faulty variant: the entered points are added to the computed points
form_points_override_added(category, rule, minutes_late, points_override, entered) ==
    IF category = DOCUMENTED THEN 0
    ELSE LET auto_points == IF rule.is_incremental
                            THEN calc_late_points(JInt(minutes_late))
                            ELSE IntOr0(rule.base_points)
         IN IF points_override THEN auto_points + entered ELSE auto_points

\* The points the form submits: 0 for a documented conversation; otherwise
\* the rule's base points, or calc_late_points(minutes) for an incremental
\* rule, shown in the Points field, which the manager may override.
form_points(category, rule, minutes_late, points_override, entered) ==
    IF category = DOCUMENTED THEN 0
    ELSE LET auto_points == IF rule.is_incremental
                            THEN calc_late_points(JInt(minutes_late))
                            ELSE IntOr0(rule.base_points)
         IN IF points_override THEN entered ELSE auto_points

\* add_writeup(...): the row inserted.
writeup_row(id, member_id, category_id, points, incident_date, created_by) ==
    [id |-> id, team_member_id |-> member_id, category_id |-> category_id,
     points |-> JInt(points), incident_date |-> JStr(isoformat(incident_date)),
     created_by |-> created_by]

\* post_writeup_to_slack(...): the posts made, after the call.
post_writeup_to_slack(posts, h, member_id, category_name, incident_date, delivered) ==
    IF h.writeup = "" THEN posts
    ELSE slack_post(posts, h.writeup,
                    [kind |-> "New Write-Up Logged", date |-> incident_date,
                     member |-> member_id, category |-> category_name],
                    delivered)

Init ==
    /\ StoreInit
    /\ args = JNull
    /\ ret = NoCall

\* add_team_member(name): a new row, always active.
AdminAddTeamMember ==
    /\ adm.pc = "idle"
    /\ \E m \in MemberIds :
         /\ team_members[m] = "none"
         /\ \A n \in MemberIds : n < m => team_members[n] # "none"
         /\ team_members' = [team_members EXCEPT ![m] = "active"]
    /\ UNCHANGED <<writeups, next_writeup_id, hooks, slack, mgr, adm, args, ret, users, session_state, admin_browse>>

\* "Mark ACTIVE" / "Mark INACTIVE": set_team_member_status(chosen_id, status).
AdminSetStatus ==
    /\ adm.pc = "idle"
    /\ \E m \in fetch_team_members(TRUE), status \in {"active", "inactive"} :
         /\ team_members[m] # status
         /\ team_members' = [team_members EXCEPT ![m] = status]
    /\ UNCHANGED <<writeups, next_writeup_id, hooks, slack, mgr, adm, args, ret, users, session_state, admin_browse>>

\* "Delete Team Member + All Write-Ups": pending_delete_member_id = del_id.
AdminRequestDeleteMember ==
    /\ adm.pc \in {"idle", "confirm"}
    /\ \E m \in fetch_team_members(TRUE) :
         adm' = [pc |-> "confirm", pending_delete_member_id |-> m]
    /\ adm' # adm
    /\ UNCHANGED <<team_members, writeups, next_writeup_id, hooks, slack, mgr, args, ret, users, session_state, admin_browse>>

\* "Cancel": pending_delete_member_id = None.
AdminCancelDeleteMember ==
    /\ adm.pc = "confirm"
    /\ adm' = AdmIdle
    /\ UNCHANGED <<team_members, writeups, next_writeup_id, hooks, slack, mgr, args, ret, users, session_state, admin_browse>>

\* "YES - Delete Member", first request of delete_team_member: delete the
\* write-ups of the member.
AdminDeleteMemberWriteups ==
    /\ adm.pc = "confirm"
    /\ writeups' = {w \in writeups : w.team_member_id # adm.pending_delete_member_id}
    /\ adm' = [pc |-> "deleting", pending_delete_member_id |-> adm.pending_delete_member_id]
    /\ UNCHANGED <<team_members, next_writeup_id, hooks, slack, mgr, args, ret, users, session_state, admin_browse>>

\* Second request of delete_team_member: delete the member; then the
\* pending id is cleared.
AdminDeleteMemberRow ==
    /\ adm.pc = "deleting"
    /\ team_members' = [team_members EXCEPT ![adm.pending_delete_member_id] = "deleted"]
    /\ adm' = AdmIdle
    /\ admin_browse' = BrowseDefaults
    /\ UNCHANGED <<writeups, next_writeup_id, hooks, slack, mgr, args, ret, users, session_state>>

\* A run of manager_mode up to the form: the active members are fetched and
\* one is selected.
MgrSelectMember ==
    /\ mgr.pc = "idle"
    /\ \E m \in fetch_team_members(FALSE) : mgr' = [pc |-> "form", member_id |-> m]
    /\ UNCHANGED <<team_members, writeups, next_writeup_id, hooks, slack, adm, args, ret, users, session_state, admin_browse>>

\* Faulty variant: saving a write-up that brings the quarter total to 25 or
\* more also marks the member inactive
MgrSubmit_deactivates_fired ==
    /\ mgr.pc = "form"
    /\ next_writeup_id <= MaxWriteups
    /\ \E category \in Categories, minutes_late \in FormMinutes, points_override \in BOOLEAN,
          entered \in FormOverrides, incident_dt \in FormDates, delivered \in BOOLEAN :
         \E rule \in IF category = DOCUMENTED THEN {JNull} ELSE fetch_rules_for_category(category) :
            LET points_val == form_points(category, rule, minutes_late, points_override, entered)
            IN /\ writeups' = writeups \cup
                     {writeup_row(next_writeup_id, mgr.member_id, category, points_val,
                                  incident_dt, MANAGER)}
               /\ slack' = post_writeup_to_slack(slack, hooks, mgr.member_id, category,
                                                 isoformat(incident_dt), delivered)
               /\ team_members' =
                     IF points_in_quarter(fetch_writeups_for_member(writeups', mgr.member_id),
                                          quarter_key(incident_dt)) >= 25
                     THEN [team_members EXCEPT ![mgr.member_id] = "inactive"]
                     ELSE team_members
    /\ next_writeup_id' = next_writeup_id + 1
    /\ mgr' = MgrIdle
    /\ UNCHANGED <<hooks, adm, args, ret, users, session_state, admin_browse>>

\* The rest of the run when "Save Write-Up" was pressed: add_writeup, then
\* post_writeup_to_slack, then "Write-up saved." and a rerun.
\* The form is filled from the given categories, minutes, points and dates.
MgrSubmitWith(categories, minutes, overrides, dates) ==
    /\ mgr.pc = "form"
    /\ next_writeup_id <= MaxWriteups
    /\ \E category \in categories, minutes_late \in minutes, points_override \in BOOLEAN,
          entered \in overrides, incident_dt \in dates, delivered \in BOOLEAN :
         \E rule \in IF category = DOCUMENTED THEN {JNull} ELSE fetch_rules_for_category(category) :
            LET points_val == form_points(category, rule, minutes_late, points_override, entered)
            IN /\ writeups' = writeups \cup
                     {writeup_row(next_writeup_id, mgr.member_id, category, points_val,
                                  incident_dt, MANAGER)}
               /\ slack' = post_writeup_to_slack(slack, hooks, mgr.member_id, category,
                                                 isoformat(incident_dt), delivered)
    /\ next_writeup_id' = next_writeup_id + 1
    /\ mgr' = MgrIdle
    /\ UNCHANGED <<team_members, hooks, adm, args, ret, users, session_state, admin_browse>>

MgrSubmit == MgrSubmitWith(Categories, FormMinutes, FormOverrides, FormDates)

\* The manager leaves the form without saving.
MgrLeaveForm ==
    /\ mgr.pc = "form"
    /\ mgr' = MgrIdle
    /\ UNCHANGED <<team_members, writeups, next_writeup_id, hooks, slack, adm, args, ret, users, session_state, admin_browse>>

Next ==
    \/ AdminAddTeamMember
    \/ AdminSetStatus
    \/ AdminRequestDeleteMember
    \/ AdminCancelDeleteMember
    \/ AdminDeleteMemberWriteups
    \/ AdminDeleteMemberRow
    \/ MgrSelectMember
    \/ MgrSubmit
    \/ MgrLeaveForm

Spec == Init /\ [][Next]_vars

\* The points of a member in a quarter, as the screens compute them from a
\* writeups table.
QuarterPoints(table, member_id, quarter_label) ==
    points_in_quarter(fetch_writeups_for_member(table, member_id), quarter_label)

\* A standing alert for member_id and quarter_label carrying q_points is
\* among the posts from position from on.
AlertAmong(posts, from, member_id, quarter_label, q_points) ==
    \E i \in from..Len(posts) :
        /\ posts[i].url = ALERT_URL
        /\ posts[i].text.kind = "Standing Alert"
        /\ posts[i].text.member = member_id
        /\ posts[i].text.quarter = quarter_label
        /\ posts[i].text.q_points = q_points

\* C2: with the alert webhook set, every step that records a write-up which
\* moves the member's total for the incident date's quarter into another tier
\* among Borderline, Suspension, Fired also posts a standing alert carrying
\* the quarter total after the insert.
C2_SubmitAlertsOnTierChange ==
    [][\A w \in writeups' \ writeups :
          LET k == quarter_key(parse_iso_date(w.incident_date))
              before == QuarterPoints(writeups, w.team_member_id, k)
              after == QuarterPoints(writeups', w.team_member_id, k)
          IN (/\ hooks.alert # ""
              /\ standing_label(JInt(after)) \in {"Borderline", "Suspension", "Fired"}
              /\ standing_label(JInt(after)) # standing_label(JInt(before)))
                 => AlertAmong(slack', Len(slack) + 1, w.team_member_id, k, after)]_vars

\* C4: no write-up of the store refers to a member that is not in the
\* store: once delete_team_member(id) has completed there is no write-up of
\* id, whatever a concurrent add_writeup did.
C4_NoOrphanedWriteup ==
    \A w \in writeups : team_members[w.team_member_id] \in {"active", "inactive"}

\* C5: every write-up of the store has points >= 0.
C5_PointsNonNegative ==
    \A w \in writeups : w.points.t = "int" /\ w.points.v >= 0

-----------------------------------------------------------------------------
(* SpecRecords: write-ups added by the manager session and deleted by the  *)
(* admin session while the employee screen is opened; no webhook is set.   *)

\* date.today() of the runs of the model.
Today == Date(2025, 7, 4)

\* current_quarter_key()
current_quarter_key == quarter_key(Today)

\* employee_mode: the quarters offered by "Quarter to evaluate": the current
\* quarter and every quarter in which an active member has a write-up.
quarter_options(table) ==
    {current_quarter_key} \cup
    UNION {{r.quarter : r \in
              {build_quarter_totals(fetch_writeups_for_member(table, m))[i] :
                 i \in 1..Len(build_quarter_totals(fetch_writeups_for_member(table, m)))}} :
           m \in fetch_team_members(FALSE)}

\* employee_mode for the selected member and quarter: the write-ups fetched
\* for every active member at the start of the run, fetched again for the
\* selected member when that list is empty, and the figures shown.
employee_mode(table, member_id, selected_quarter) ==
    LET per_member_writeups ==
            [m \in fetch_team_members(FALSE) |-> fetch_writeups_for_member(table, m)]
        ws == IF per_member_writeups[member_id] # <<>>
              THEN per_member_writeups[member_id]
              ELSE fetch_writeups_for_member(table, member_id)
    IN [member_id |-> member_id, shown |-> standing_report(ws, selected_quarter)]

InitRecords ==
    /\ Init
    /\ hooks = [alert |-> "", writeup |-> ""]

\* A run of employee_mode: an active member and one of the quarters offered
\* are selected, and the standing is computed from the store.
EmployeeView ==
    /\ ret = NoCall
    /\ \E m \in fetch_team_members(FALSE), k \in quarter_options(writeups) :
         ret' = employee_mode(writeups, m, k)
    /\ UNCHANGED <<storeVars, args>>

\* The employee screen is left.
EmployeeLeave ==
    /\ ret # NoCall
    /\ ret' = NoCall
    /\ UNCHANGED <<storeVars, args>>

\* "Delete this write-up" on the write-up the admin browser shows:
\* pending_delete_writeup_id = w["id"].
AdminRequestDeleteWriteup ==
    /\ adm.pc = "idle"
    /\ \E w \in writeups :
         adm' = [pc |-> "confirm_writeup", pending_delete_writeup_id |-> w.id]
    /\ UNCHANGED <<team_members, writeups, next_writeup_id, hooks, slack, mgr, args, ret, users, session_state, admin_browse>>

\* "Cancel": pending_delete_writeup_id = None.
AdminCancelDeleteWriteup ==
    /\ adm.pc = "confirm_writeup"
    /\ adm' = AdmIdle
    /\ UNCHANGED <<team_members, writeups, next_writeup_id, hooks, slack, mgr, args, ret, users, session_state, admin_browse>>

\* "YES - Delete permanently": delete_writeup(pending_delete_writeup_id),
\* then the pending id is cleared.
AdminConfirmDeleteWriteup ==
    /\ adm.pc = "confirm_writeup"
    /\ writeups' = {w \in writeups : w.id # adm.pending_delete_writeup_id}
    /\ adm' = AdmIdle
    /\ UNCHANGED <<team_members, next_writeup_id, hooks, slack, mgr, args, ret, users, session_state, admin_browse>>

NextRecords ==
    \/ AdminAddTeamMember
    \/ AdminSetStatus
    \/ MgrSelectMember
    \/ MgrSubmit
    \/ MgrLeaveForm
    \/ AdminRequestDeleteWriteup
    \/ AdminCancelDeleteWriteup
    \/ AdminConfirmDeleteWriteup
    \/ EmployeeView
    \/ EmployeeLeave

SpecRecords == InitRecords /\ [][NextRecords]_vars

\* The year and the quarter of the year an incident_date text names.
YearAndQuarter(text) ==
    <<IntOf(SubSeq(text, 1, 4)), QuarterOfMonth(IntOf(SubSeq(text, 6, 7)))>>

\* The write-ups of a table that belong to member_id and to the quarter a
\* label names.
RowsOf(table, member_id, quarter_label) ==
    {w \in table : /\ w.team_member_id = member_id
                   /\ YearAndQuarter(w.incident_date.v) = sort_key(quarter_label)}

\* The sum of the points of a set of write-ups.
RECURSIVE PointsOf(_)
PointsOf(rows) ==
    IF rows = {} THEN 0
    ELSE LET w == CHOOSE r \in rows : TRUE
         IN w.points.v + PointsOf(rows \ {w})

\* The quarters of the write-ups the form can date, and the current one.
RecordQuarters == {quarter_key(d) : d \in FormDates} \cup {current_quarter_key}

\* C11: whatever add_writeup and delete_writeup calls of the manager and
\* admin sessions came before, in whatever order, a run of employee_mode
\* shows for the selected member and quarter the sum of the points of the
\* write-ups the store holds for that member and quarter at that moment, and
\* the tier standing_label gives for that sum.
C11_FreshViewMatchesStore ==
    [][(ret = NoCall /\ ret' # NoCall) =>
          LET total == PointsOf(RowsOf(writeups', ret'.member_id, ret'.shown.selected_quarter))
          IN /\ ret'.shown.q_total = total
             /\ ret'.shown.s_label = standing_label(JInt(total))]_vars

\* A view computed after an insert and a delete: of two write-ups one is
\* left, the viewed member's, and the view shows its 25 points.
C11_Witness ==
    /\ ret # NoCall
    /\ next_writeup_id = 3
    /\ Cardinality(writeups) = 1
    /\ \E w \in writeups : w.team_member_id = ret.member_id /\ w.points = JInt(25)
    /\ PointsOf(RowsOf(writeups, ret.member_id, ret.shown.selected_quarter)) = 25
    /\ ret.shown.q_total = 25
    /\ ret.shown.s_label = "Fired"

-----------------------------------------------------------------------------
(* SpecManager: the manager session's form, field by field: the form is    *)
(* filled, "Save Write-Up" is pressed, and the outcome is reported.        *)

\* post_writeup_to_slack(...) raises iff its slack_post does.
post_writeup_to_slack_raises(h, delivered) == slack_post_raises(h.writeup, delivered)

\* What the widgets of manager_mode hold when "Save Write-Up" is pressed.
\* A documented conversation has no rule and no "Minutes late"; a fixed rule
\* has no "Minutes late"; the Points field can be edited only with the
\* override on.  rule_lookups counts the fetch_rules_for_category calls of
\* the run.
Forms ==
    {f \in [category : Categories, rule : Rules \cup {JNull}, minutes_late : FormMinutes \cup {0},
            points_override : BOOLEAN, entered : FormOverrides \cup {0},
            incident_dt : FormDates, rule_lookups : {0, 1}] :
        /\ f.category = DOCUMENTED => f.rule = JNull /\ f.rule_lookups = 0
        /\ f.category # DOCUMENTED =>
              f.rule \in fetch_rules_for_category(f.category) /\ f.rule_lookups = 1
        /\ (f.rule = JNull \/ ~f.rule.is_incremental) => f.minutes_late = 0
        /\ f.points_override <=> f.entered \in FormOverrides}

InitManager ==
    /\ Init
    /\ hooks.alert = ""

\* The runs of manager_mode in which the form is filled.
MgrFillForm ==
    /\ mgr.pc = "form"
    /\ \E f \in Forms : mgr' = [pc |-> "filled", member_id |-> mgr.member_id, form |-> f]
    /\ UNCHANGED <<team_members, writeups, next_writeup_id, hooks, slack, adm, args, ret, users, session_state, admin_browse>>

\* The run in which "Save Write-Up" was pressed: inside try, add_writeup
\* (the request succeeds or raises), post_writeup_to_slack, "Write-up
\* saved."; whatever raises inside try ends in "Failed to save write-up".
MgrSave ==
    /\ mgr.pc = "filled"
    /\ next_writeup_id <= MaxWriteups
    /\ \E inserted \in BOOLEAN, delivered \in BOOLEAN :
         LET f == mgr.form
             points_val == form_points(f.category, f.rule, f.minutes_late,
                                       f.points_override, f.entered)
         IN IF inserted
            THEN /\ writeups' = writeups \cup
                       {writeup_row(next_writeup_id, mgr.member_id, f.category, points_val,
                                    f.incident_dt, MANAGER)}
                 /\ next_writeup_id' = next_writeup_id + 1
                 /\ slack' = post_writeup_to_slack(slack, hooks, mgr.member_id, f.category,
                                                   isoformat(f.incident_dt), delivered)
                 /\ mgr' = IF post_writeup_to_slack_raises(hooks, delivered)
                           THEN [pc |-> "failed", member_id |-> mgr.member_id]
                           ELSE [pc |-> "saved", member_id |-> mgr.member_id, form |-> f]
            ELSE /\ UNCHANGED <<writeups, next_writeup_id, slack>>
                 /\ mgr' = [pc |-> "failed", member_id |-> mgr.member_id]
    /\ UNCHANGED <<team_members, hooks, adm, args, ret, users, session_state, admin_browse>>

\* st.rerun() after "Write-up saved."; after "Failed to save write-up" the
\* form is shown again.
MgrRerun ==
    /\ mgr.pc \in {"saved", "failed"}
    /\ mgr' = IF mgr.pc = "saved" THEN MgrIdle ELSE [pc |-> "form", member_id |-> mgr.member_id]
    /\ UNCHANGED <<team_members, writeups, next_writeup_id, hooks, slack, adm, args, ret, users, session_state, admin_browse>>

NextManager ==
    \/ AdminAddTeamMember
    \/ MgrSelectMember
    \/ MgrFillForm
    \/ MgrSave
    \/ MgrRerun
    \/ MgrLeaveForm

SpecManager == InitManager /\ [][NextManager]_vars

\* C12: a step that inserts a write-up keeps every write-up there was, adds
\* exactly one, makes its post when the write-up webhook is set and ends in
\* "Write-up saved.", whether the post was delivered or not: a failed
\* delivery neither undoes the insert nor turns the report into a failure.
C12_SaveSurvivesSlackFailure ==
    [][writeups' # writeups =>
          /\ writeups \subseteq writeups'
          /\ Cardinality(writeups' \ writeups) = 1
          /\ mgr'.pc = "saved"
          /\ hooks.writeup # "" => Len(slack') = Len(slack) + 1]_vars

\* The write-up the run that just ended in "Write-up saved." inserted.
SavedRows == {w \in writeups : w.id = next_writeup_id - 1 /\ w.team_member_id = mgr.member_id}

\* "Write-up saved." is shown, the write-up is in the store, and its post
\* was not delivered.
C12_Witness ==
    /\ mgr.pc = "saved"
    /\ SavedRows # {}
    /\ slack # <<>>
    /\ slack[Len(slack)].url = WRITEUP_URL
    /\ ~slack[Len(slack)].delivered

\* C14: a write-up saved under "Documented Conversation" is stored with
\* exactly 0 points, whatever rules the category has and whatever the
\* Points field and the override hold, and its run makes no
\* fetch_rules_for_category call.
C14_DocumentedConversationHasNoPoints ==
    /\ \A w \in writeups : w.category_id = DOCUMENTED => w.points = JInt(0)
    /\ (mgr.pc = "saved" /\ mgr.form.category = DOCUMENTED) =>
          /\ SavedRows # {}
          /\ \A w \in SavedRows : w.category_id = DOCUMENTED /\ w.points = JInt(0)
          /\ mgr.form.rule_lookups = 0

C14_Witness ==
    /\ mgr.pc = "saved"
    /\ mgr.form.category = DOCUMENTED
    /\ mgr.form.points_override /\ mgr.form.entered = 25
    /\ fetch_rules_for_category(DOCUMENTED) # {}
    /\ \E w \in SavedRows : w.points = JInt(0)

\* The points of n minutes late: 0 under 6 minutes, 1 from 6 minutes on and
\* 1 more for every 10 minutes from 15 on.
LatePoints(n) == IF n < 6 THEN 0 ELSE 1 + ((n - 5) \div 10)

-----------------------------------------------------------------------------
(* SpecGarbled: the three aggregations on write-ups whose points are       *)
(* missing or no number                                                    *)

MaxGarbled == 2

GARBLED == JStr(<<"a", "b", "c">>)

GarbledDates == {JStr(isoformat(Date(2025, 1, 15))), JNull}

\* points values: null, empty text, a text that is no number, and 2; a row
\* may also have no points key at all.
GarbledPoints == {JNull, JStr(<<>>), GARBLED, JInt(2)}

GarbledRows ==
    [incident_date : GarbledDates, points : GarbledPoints] \cup [incident_date : GarbledDates]

GarbledLists == UNION {[1..n -> GarbledRows] : n \in 0..MaxGarbled}

GarbledQuarters == {quarter_key(Date(2025, 1, 15)), quarter_key(Date(2025, 7, 4))}

\* The outcome of a call: an exception, or the value returned.
Raised == [t |-> "raised", error |-> "ValueError"]
Returned(v) == [t |-> "returned", v |-> v]

InitGarbled ==
    /\ StoreUnused
    /\ args \in [writeups : GarbledLists, quarter_label : GarbledQuarters]
    /\ ret = NoCall

\* The three functions are called on the list, each on its own.
CallAggregations ==
    /\ ret = NoCall
    /\ ret' = [build_quarter_totals |->
                  IF build_quarter_totals_raises(args.writeups) THEN Raised
                  ELSE Returned(build_quarter_totals(args.writeups)),
               points_in_quarter |->
                  IF points_in_quarter_raises(args.writeups, args.quarter_label) THEN Raised
                  ELSE Returned(points_in_quarter(args.writeups, args.quarter_label)),
               all_time_points |->
                  IF all_time_points_raises(args.writeups) THEN Raised
                  ELSE Returned(all_time_points(args.writeups))]
    /\ UNCHANGED <<storeVars, args>>

NextGarbled == CallAggregations

SpecGarbled == InitGarbled /\ [][NextGarbled]_vars

\* The list with the points of every write-up that has none, or none that
\* is a number, set to 0.
CountedAsZero(ws) ==
    [i \in 1..Len(ws) |->
        [incident_date |-> ws[i].incident_date,
         points |-> IF "points" \in DOMAIN ws[i] /\ ws[i].points.t = "int"
                    THEN ws[i].points ELSE JInt(0)]]

\* C13: on a list in which write-ups have points that are null, absent or no
\* number, none of build_quarter_totals, points_in_quarter and
\* all_time_points raises, and each returns what it returns on the list with
\* those points set to 0.
C13_GarbledPointsCountAsZero ==
    ret # NoCall =>
        LET zs == CountedAsZero(args.writeups)
        IN /\ ret.build_quarter_totals = Returned(build_quarter_totals(zs))
           /\ ret.points_in_quarter = Returned(points_in_quarter(zs, args.quarter_label))
           /\ ret.all_time_points = Returned(all_time_points(zs))

-----------------------------------------------------------------------------
(* Claims on SpecRecords about what a write leaves alone *)

\* C16: a step that sets a member's status to inactive leaves the member out
\* of the listing without the inactive members, keeps the member in the
\* listing with them, and changes no write-up; and no inactive member is in
\* the listing without the inactive members after any step.
C16_InactiveIsUnlistedAndKeepsWriteups ==
    [][\A m \in MemberIds :
          /\ (team_members[m] # "inactive" /\ team_members'[m] = "inactive") =>
                /\ m \notin fetch_team_members(FALSE)'
                /\ m \in fetch_team_members(TRUE)'
                /\ writeups' = writeups
          /\ team_members'[m] = "inactive" => m \notin fetch_team_members(FALSE)']_vars

\* A member with a write-up is inactive: not listed among the active, and
\* the write-up is still there.
C16_Witness ==
    \E m \in MemberIds :
        /\ team_members[m] = "inactive"
        /\ m \notin fetch_team_members(FALSE)
        /\ m \in fetch_team_members(TRUE)
        /\ \E w \in writeups : w.team_member_id = m /\ w.points = JInt(8)

\* SpecWrites: the inserts and deletes of SpecRecords alone, with the steps
\* that lead to them.
NextWrites ==
    \/ AdminAddTeamMember
    \/ MgrSelectMember
    \/ MgrSubmit
    \/ AdminRequestDeleteWriteup
    \/ AdminConfirmDeleteWriteup

SpecWrites == InitRecords /\ [][NextWrites]_vars

\* C19: a step that inserts or deletes write-ups changes points_in_quarter,
\* and the tier, of no member and quarter other than those of the write-ups
\* inserted or deleted.
C19_WriteTouchesOneQuarterOfOneMember ==
    [][writeups' # writeups =>
          LET touched == (writeups' \ writeups) \cup (writeups \ writeups')
          IN \A m \in MemberIds, k \in RecordQuarters :
                (\A w \in touched : ~(/\ w.team_member_id = m
                                      /\ YearAndQuarter(w.incident_date.v) = sort_key(k))) =>
                   \A before \in {QuarterPoints(writeups, m, k)},
                      after \in {QuarterPoints(writeups', m, k)} :
                        /\ after = before
                        /\ standing_label(JInt(after)) = standing_label(JInt(before))]_vars

\* A member has 25 points in the first quarter of 2025 and 10 in the second.
C19_Witness ==
    \E m \in MemberIds :
        /\ Cardinality(writeups) = 2
        /\ QuarterPoints(writeups, m, quarter_key(Date(2025, 3, 31))) = 25
        /\ QuarterPoints(writeups, m, quarter_key(Date(2025, 4, 1))) = 10
        /\ standing_label(JInt(QuarterPoints(writeups, m, quarter_key(Date(2025, 3, 31))))) = "Fired"

\* C20: a step that inserts a write-up changes no member's status, whatever
\* total and tier it brings; a status changes only in a step of the admin
\* session, which inserts no write-up.
C20_InsertChangesNoStatus ==
    [][/\ (writeups' \ writeups # {}) => team_members' = team_members
       /\ team_members' # team_members =>
             (writeups' = writeups /\ next_writeup_id' = next_writeup_id /\ mgr' = mgr)]_vars

\* A member whose quarter total is 25 or more, labelled Fired, is active and
\* listed.
C20_Witness ==
    \E m \in MemberIds, k \in RecordQuarters :
        /\ QuarterPoints(writeups, m, k) >= 25
        /\ standing_label(JInt(QuarterPoints(writeups, m, k))) = "Fired"
        /\ team_members[m] = "active"
        /\ m \in fetch_team_members(FALSE)
        /\ mgr = MgrIdle

-----------------------------------------------------------------------------
(* SpecCheckLogin: check_login on every users table and every input *)

\* Python's None as a role.
None == "None"

Roles == {"viewer", "manager", "admin"}

\* The password "Add User" gives an account in the model.
PASSWORD == "pw"

\* The rows a username can have in the users table.
UserRows == [password : {DefaultAdmin.password, PASSWORD}, role : Roles, is_disabled : BOOLEAN]

UsersTables == [Usernames -> UserRows \cup {NoUser}]

\* The row .eq("username", username).single() finds, NoUser when there is
\* none.
user_row(table, username) ==
    IF username \in DOMAIN table THEN table[username] ELSE NoUser

\* Faulty variant: a disabled user logs in
check_login_ignores_disabled(table, username, password_input, lookup_fails) ==
    IF lookup_fails THEN [ok |-> FALSE, role |-> None]
    ELSE LET user_data == user_row(table, username)
         IN IF user_data = NoUser THEN [ok |-> FALSE, role |-> None]
            ELSE IF password_input = user_data.password
                 THEN [ok |-> TRUE, role |-> user_data.role]
                 ELSE [ok |-> FALSE, role |-> None]

\* check_login(username, password_input) on a users table.  lookup_fails:
\* the request to the store raises; .single() raises too when no row has
\* the username; every exception ends in (False, None).
check_login(table, username, password_input, lookup_fails) ==
    IF lookup_fails THEN [ok |-> FALSE, role |-> None]
    ELSE LET user_data == user_row(table, username)
         IN IF user_data = NoUser THEN [ok |-> FALSE, role |-> None]
            ELSE IF user_data.is_disabled = TRUE THEN [ok |-> FALSE, role |-> None]
            ELSE IF password_input = user_data.password
                 THEN [ok |-> TRUE, role |-> user_data.role]
                 ELSE [ok |-> FALSE, role |-> None]

\* What is typed in the login panel.
LoginUsernames == Usernames \cup {""}
LoginPasswords == {DefaultAdmin.password, PASSWORD, ""}

InitCheckLogin ==
    /\ RecordsInit
    /\ hooks = [alert |-> "", writeup |-> ""]
    /\ users \in UsersTables
    /\ args \in [username : LoginUsernames, password_input : LoginPasswords,
                 lookup_fails : BOOLEAN]
    /\ ret = NoCall

CallCheckLogin ==
    /\ ret = NoCall
    /\ ret' = check_login(users, args.username, args.password_input, args.lookup_fails)
    /\ UNCHANGED <<storeVars, args>>

NextCheckLogin == CallCheckLogin

SpecCheckLogin == InitCheckLogin /\ [][NextCheckLogin]_vars

\* C17: check_login returns (True, role) iff the lookup succeeds and finds a
\* user with the username who is not disabled and whose stored password
\* equals the input, role being that user's stored role; in every other
\* case it returns (False, None).
C17_LoginIffEnabledUserWithPassword ==
    ret # NoCall =>
        LET accepted ==
                /\ ~args.lookup_fails
                /\ args.username \in Usernames
                /\ users[args.username] # NoUser
                /\ ~users[args.username].is_disabled
                /\ users[args.username].password = args.password_input
        IN /\ ret.ok <=> accepted
           /\ accepted => ret = [ok |-> TRUE, role |-> users[args.username].role]
           /\ ~accepted => ret = [ok |-> FALSE, role |-> None]

\* A disabled user gave the right password, the lookup succeeded, and the
\* answer is (False, None).
C17_Witness ==
    /\ ret = [ok |-> FALSE, role |-> None]
    /\ ~args.lookup_fails
    /\ args.username = "Max"
    /\ users["Max"] # NoUser
    /\ users["Max"].is_disabled
    /\ users["Max"].password = args.password_input
    /\ users["Max"].role = "manager"

-----------------------------------------------------------------------------
(* SpecLogin: one browser session from a fresh store: the login gate, then *)
(* the manager and admin screens behind their role checks.  Every handler  *)
(* is a run of the script, which starts with ensure_default_admin().       *)

\* ensure_default_admin() on a users table: the table after the call.
ensure_default_admin(table) ==
    IF \A u \in Usernames : table[u] = NoUser
    THEN [table EXCEPT ![LAUREN] = DefaultAdmin]
    ELSE table

\* main: a run gets past the login gate only when logged in.
main(run) == session_state.logged_in /\ run

\* manager_mode: the role check, then the screen.
manager_mode(run) == session_state.role \in {"manager", "admin"} /\ run

\* Faulty variant: admin_mode without its role check
admin_mode_for_any_role(run) == run

\* admin_mode: the role check, then the screen.
admin_mode(run) == session_state.role = "admin" /\ run

\* The usernames "Add User" is given in the model.
NewUsernames == Usernames \ {LAUREN}

InitLogin ==
    /\ RecordsInit
    /\ hooks = [alert |-> "", writeup |-> ""]
    /\ users = NoUsers
    /\ args = JNull
    /\ ret = NoCall

\* A run of the script that stops at the login panel, nothing pressed.
SessOpenPage ==
    /\ ~session_state.logged_in
    /\ users' = ensure_default_admin(users)
    /\ UNCHANGED <<team_members, writeups, next_writeup_id, hooks, slack, mgr, adm, args, ret, session_state, admin_browse>>

\* "Login" pressed in login_panel.
SessLogin ==
    /\ ~session_state.logged_in
    /\ \E u \in LoginUsernames, p \in LoginPasswords, lookup_fails \in BOOLEAN :
         LET seeded == ensure_default_admin(users)
             answer == check_login(seeded, u, p, lookup_fails)
         IN /\ users' = seeded
            /\ session_state' = IF answer.ok
                                THEN [logged_in |-> TRUE, username |-> u, role |-> answer.role]
                                ELSE session_state
    /\ UNCHANGED <<team_members, writeups, next_writeup_id, hooks, slack, mgr, adm, args, ret, admin_browse>>

\* Faulty variant: Logout leaves pending_delete_username set
SessLogout_keeps_pending_username ==
    /\ session_state.logged_in
    /\ adm.pc # "deleting"
    /\ session_state' = SessionDefaults
    /\ adm' = IF adm.pc \in {"confirm", "confirm_user"} THEN adm ELSE AdmIdle
    /\ mgr' = MgrIdle
    /\ admin_browse' = BrowseDefaults
    /\ UNCHANGED <<team_members, writeups, next_writeup_id, hooks, slack, args, ret, users>>

\* "Logout": logged_in, username, role, pending_delete_writeup_id,
\* pending_delete_username and the admin browser are reset;
\* pending_delete_member_id is not.  The manager's form is no longer
\* rendered.
SessLogout ==
    /\ session_state.logged_in
    /\ adm.pc # "deleting"
    /\ session_state' = SessionDefaults
    /\ adm' = IF adm.pc = "confirm" THEN adm ELSE AdmIdle
    /\ mgr' = MgrIdle
    /\ admin_browse' = BrowseDefaults
    /\ UNCHANGED <<team_members, writeups, next_writeup_id, hooks, slack, args, ret, users>>

\* "Update Role": update_user_role(selected_username, new_role).
AdminUpdateRole ==
    /\ adm.pc = "idle"
    /\ \E u \in Usernames, new_role \in Roles :
         /\ users[u] # NoUser
         /\ users' = [users EXCEPT ![u].role = new_role]
    /\ UNCHANGED <<team_members, writeups, next_writeup_id, hooks, slack, mgr, adm, args, ret, session_state, admin_browse>>

\* "Disable User" / "Enable User" on another account:
\* set_user_disabled(pick2, True / False).
AdminSetUserDisabled ==
    /\ adm.pc = "idle"
    /\ \E u \in Usernames :
         /\ users[u] # NoUser
         /\ u # session_state.username
         /\ users' = [users EXCEPT ![u].is_disabled = ~users[u].is_disabled]
    /\ UNCHANGED <<team_members, writeups, next_writeup_id, hooks, slack, mgr, adm, args, ret, session_state, admin_browse>>

\* "Delete User" on another account: pending_delete_username = del_pick.
AdminRequestDeleteUser ==
    /\ adm.pc = "idle"
    /\ \E del_pick \in Usernames :
         /\ users[del_pick] # NoUser
         /\ del_pick # session_state.username
         /\ adm' = [pc |-> "confirm_user", pending_delete_username |-> del_pick]
    /\ UNCHANGED <<team_members, writeups, next_writeup_id, hooks, slack, mgr, args, ret, users, session_state, admin_browse>>

\* "Cancel": pending_delete_username = None.
AdminCancelDeleteUser ==
    /\ adm.pc = "confirm_user"
    /\ \E del_pick \in Usernames : users[del_pick] # NoUser /\ del_pick # session_state.username
    /\ adm' = AdmIdle
    /\ UNCHANGED <<team_members, writeups, next_writeup_id, hooks, slack, mgr, args, ret, users, session_state, admin_browse>>

\* "YES - Delete permanently": delete_user(pending_delete_username), then
\* the pending username is cleared.  The buttons are shown while the user
\* picked in the selectbox is another account.
AdminConfirmDeleteUser ==
    /\ adm.pc = "confirm_user"
    /\ \E del_pick \in Usernames : users[del_pick] # NoUser /\ del_pick # session_state.username
    /\ users' = [users EXCEPT ![adm.pending_delete_username] = NoUser]
    /\ adm' = AdmIdle
    /\ UNCHANGED <<team_members, writeups, next_writeup_id, hooks, slack, mgr, args, ret, session_state, admin_browse>>

\* "Add User": a new row, enabled; the store is taken to refuse a username
\* it already has.
AdminAddUser ==
    /\ adm.pc = "idle"
    /\ \E nu \in NewUsernames, nrole \in Roles :
         /\ users[nu] = NoUser
         /\ users' = [users EXCEPT ![nu] = [password |-> PASSWORD, role |-> nrole,
                                            is_disabled |-> FALSE]]
    /\ UNCHANGED <<team_members, writeups, next_writeup_id, hooks, slack, mgr, adm, args, ret, session_state, admin_browse>>

NextLogin ==
    \/ SessOpenPage
    \/ SessLogin
    \/ SessLogout
    \/ main(manager_mode(MgrSelectMember))
    \/ main(manager_mode(MgrSubmitWith({DOCUMENTED}, {0}, {10}, {Date(2025, 3, 31)})))
    \/ main(manager_mode(MgrLeaveForm))
    \/ main(admin_mode(AdminAddTeamMember))
    \/ main(admin_mode(AdminSetStatus))
    \/ main(admin_mode(AdminRequestDeleteMember))
    \/ main(admin_mode(AdminCancelDeleteMember))
    \/ main(admin_mode(AdminDeleteMemberWriteups))
    \/ main(admin_mode(AdminDeleteMemberRow))
    \/ main(admin_mode(AdminRequestDeleteWriteup))
    \/ main(admin_mode(AdminCancelDeleteWriteup))
    \/ main(admin_mode(AdminConfirmDeleteWriteup))
    \/ main(admin_mode(AdminUpdateRole))
    \/ main(admin_mode(AdminSetUserDisabled))
    \/ main(admin_mode(AdminRequestDeleteUser))
    \/ main(admin_mode(AdminCancelDeleteUser))
    \/ main(admin_mode(AdminConfirmDeleteUser))
    \/ main(admin_mode(AdminAddUser))

SpecLogin == InitLogin /\ [][NextLogin]_vars

\* A step adds a write-up.
AddsWriteup == writeups' \ writeups # {}

\* A step does what only the admin screen offers: it changes the members'
\* table, deletes a write-up or changes the users' table.
DoesAdminOperation ==
    \/ team_members' # team_members
    \/ writeups \ writeups' # {}
    \/ users' # users

\* A step is the seeding of the default admin into an empty users table, and
\* nothing else in the store changes.
SeedsDefaultAdmin ==
    /\ users = NoUsers
    /\ users' = SeededUsers
    /\ team_members' = team_members
    /\ writeups' = writeups

\* C18 as stated: a step that changes the store is taken in a logged-in
\* session; a step that adds a write-up in a session whose role is manager
\* or admin; a step that does an admin operation in a session whose role is
\* admin.
C18_AsStated ==
    [][/\ (AddsWriteup \/ DoesAdminOperation) => session_state.logged_in
       /\ AddsWriteup => session_state.role \in {"manager", "admin"}
       /\ DoesAdminOperation => session_state.role = "admin"]_vars

\* C18 (amended): the same, except for the run that finds the users table
\* empty: it inserts the default admin account before the login gate,
\* whether the session is logged in or not.
C18_RoleGatedButForSeeding ==
    [][\/ SeedsDefaultAdmin
       \/ /\ (AddsWriteup \/ DoesAdminOperation) => session_state.logged_in
          /\ AddsWriteup => session_state.role \in {"manager", "admin"}
          /\ DoesAdminOperation => session_state.role = "admin"]_vars

\* A session whose role is manager is logged in behind the gate, with a
\* member and a write-up in the store and a second account in the users
\* table.
C18_Witness ==
    /\ session_state.logged_in
    /\ session_state.role = "manager"
    /\ \E m \in MemberIds : team_members[m] = "active"
    /\ writeups # {}
    /\ mgr.pc = "form"
    /\ \A u \in Usernames : users[u] # NoUser

-----------------------------------------------------------------------------
(* SpecFrame: build_quarter_totals on lists in every order, with years of  *)
(* three and of four digits                                                *)

FrameDates ==
    {JStr(isoformat(Date(999, 12, 31))), JStr(isoformat(Date(1000, 1, 1))),
     JStr(isoformat(Date(2025, 1, 15))), JNull}

FramePoints == {JInt(1), JInt(2)}

FrameLists == UNION {[1..n -> [incident_date : FrameDates, points : FramePoints]] : n \in 0..MaxLen}

InitFrame ==
    /\ StoreUnused
    /\ args \in [writeups : FrameLists]
    /\ ret = NoCall

CallBuildQuarterTotals ==
    /\ ret = NoCall
    /\ ret' = [df |-> build_quarter_totals(args.writeups)]
    /\ UNCHANGED <<storeVars, args>>

NextFrame == CallBuildQuarterTotals

SpecFrame == InitFrame /\ [][NextFrame]_vars

\* The quarter keys of the dates above, by (year, quarter number).
FrameLabels ==
    {[pair |-> <<999, 4>>, label |-> <<"9", "9", "9", " ", "Q", "4">>],
     [pair |-> <<1000, 1>>, label |-> <<"1", "0", "0", "0", " ", "Q", "1">>],
     [pair |-> <<2025, 1>>, label |-> <<"2", "0", "2", "5", " ", "Q", "1">>]}

\* The (year, quarter number) pairs of the write-ups of a list that have a
\* date.
PairsPresent(ws) ==
    {YearAndQuarter(ws[i].incident_date.v) : i \in {j \in 1..Len(ws) : ws[j].incident_date # JNull}}

\* The pair a row of the frame stands for.
PairOfRow(r) == (CHOOSE e \in FrameLabels : e.label = r.quarter).pair

\* C21: build_quarter_totals returns one row for every quarter in which a
\* write-up with a date that parses falls and no other row, no quarter
\* twice, and the rows ascend strictly by (year, quarter number), whatever
\* the order of the write-ups.
C21_OneRowPerQuarterAscending ==
    ret # NoCall =>
        /\ \A i \in 1..Len(ret.df) : \E e \in FrameLabels : e.label = ret.df[i].quarter
        /\ {PairOfRow(ret.df[i]) : i \in 1..Len(ret.df)} = PairsPresent(args.writeups)
        /\ Len(ret.df) = Cardinality(PairsPresent(args.writeups))
        /\ \A i, j \in 1..Len(ret.df) :
              i < j => \/ PairOfRow(ret.df[i])[1] < PairOfRow(ret.df[j])[1]
                       \/ /\ PairOfRow(ret.df[i])[1] = PairOfRow(ret.df[j])[1]
                          /\ PairOfRow(ret.df[i])[2] < PairOfRow(ret.df[j])[2]

\* The write-ups come latest first, two of them in one quarter; the frame
\* has "999 Q4" before "1000 Q1".
C21_Witness ==
    /\ ret # NoCall
    /\ Len(args.writeups) = 3
    /\ args.writeups[1].incident_date = JStr(isoformat(Date(1000, 1, 1)))
    /\ args.writeups[2].incident_date = JStr(isoformat(Date(999, 12, 31)))
    /\ args.writeups[3].incident_date = JStr(isoformat(Date(1000, 1, 1)))
    /\ Len(ret.df) = 2
    /\ ret.df[1].quarter = <<"9", "9", "9", " ", "Q", "4">>
    /\ ret.df[2].quarter = <<"1", "0", "0", "0", " ", "Q", "1">>

-----------------------------------------------------------------------------
(* Claims on SpecLogin about the pending deletes of a browser session.     *)

\* C22: whatever the session does on the admin screen (pick a user, request
\* a delete, confirm, cancel, pick another user, log out and log in again),
\* every call of delete_user is made by a logged-in session with a username
\* other than the session's own: no step removes the row of the account the
\* session is logged in as.
C22_NeverDeletesOwnAccount ==
    [][\A u \in Usernames :
          (users[u] # NoUser /\ users'[u] = NoUser) =>
              /\ session_state.logged_in
              /\ u # session_state.username
              /\ session_state' = session_state]_vars

\* The account added by "Add User" is logged in as admin and has deleted the
\* seeded account, which every run finds or creates before anyone logs in.
C22_Witness ==
    /\ session_state.logged_in
    /\ session_state.username = "Max"
    /\ session_state.role = "admin"
    /\ users["Max"] # NoUser
    /\ users[LAUREN] = NoUser
    /\ adm = AdmIdle

\* C23 as stated: once Logout has been pressed no pending delete is left in
\* the session: a session that is not logged in holds no pending write-up,
\* member or user to delete.
C23_LogoutClearsEveryPendingDelete ==
    ~session_state.logged_in => adm = AdmIdle

-----------------------------------------------------------------------------
(* SpecBrowser: the admin screen's "Browse Write-Ups Chronologically" on a *)
(* store that already holds write-ups, an admin being logged in.           *)

MaxBrowse == 3

\* The incident dates of the write-ups the store starts with.
BrowseDates == {Date(2025, 3, 31), Date(2025, 4, 1)}

\* fetch_all_writeups_chronological(): every row, incident_date descending,
\* then created_at descending.
fetch_all_writeups_chronological(table) == Ordered(table)

\* The position the browser displays: admin_browse_index brought into the
\* cache (idx, counted from 0).
browse_idx(b) ==
    Max(0, IF b.index <= Len(b.cache) - 1 THEN b.index ELSE Len(b.cache) - 1)

\* w = all_w[idx], the write-up displayed.
browse_displayed(b) == b.cache[browse_idx(b) + 1]

\* A run that called st.rerun() after emptying the cache; the next run
\* follows at once.
AdmRerun == [pc |-> "rerun"]

\* Member 1 with up to MaxBrowse write-ups saved by the manager's form, ids
\* in the order of creation; the seeded admin is logged in.
InitBrowser ==
    /\ team_members = [m \in MemberIds |-> IF m = 1 THEN "active" ELSE "none"]
    /\ \E n \in 0..MaxBrowse : \E dates \in [1..n -> BrowseDates] :
         /\ writeups = {writeup_row(i, 1, ATTENDANCE, 10, dates[i], MANAGER) : i \in 1..n}
         /\ next_writeup_id = n + 1
    /\ hooks = [alert |-> "", writeup |-> ""]
    /\ slack = <<>>
    /\ mgr = MgrIdle
    /\ adm = AdmIdle
    /\ users = SeededUsers
    /\ session_state = [logged_in |-> TRUE, username |-> LAUREN, role |-> "admin"]
    /\ admin_browse = BrowseDefaults
    /\ args = JNull
    /\ ret = NoCall

\* A run of the browser section with nothing pressed and an empty cache: the
\* list is fetched and the index is set to 0.
BrowseRender ==
    /\ admin_browse.cache = <<>>
    /\ admin_browse' = [cache |-> fetch_all_writeups_chronological(writeups), index |-> 0]
    /\ adm' = IF adm = AdmRerun THEN AdmIdle ELSE adm
    /\ UNCHANGED <<team_members, writeups, next_writeup_id, hooks, slack, mgr, args, ret, users, session_state>>

\* "Reload Write-Ups List": cache and index are reset, and the rerun it calls
\* fetches the list; a pending delete stays.
BrowseReload ==
    /\ adm # AdmRerun
    /\ admin_browse' = [cache |-> fetch_all_writeups_chronological(writeups), index |-> 0]
    /\ UNCHANGED <<team_members, writeups, next_writeup_id, hooks, slack, mgr, adm, args, ret, users, session_state>>

\* "Previous": admin_browse_index = max(0, idx - 1).
BrowsePrevious ==
    /\ admin_browse.cache # <<>>
    /\ admin_browse' = [admin_browse EXCEPT !.index = Max(0, browse_idx(admin_browse) - 1)]
    /\ UNCHANGED <<team_members, writeups, next_writeup_id, hooks, slack, mgr, adm, args, ret, users, session_state>>

\* "Next": admin_browse_index = min(len(all_w) - 1, idx + 1).
BrowseNext ==
    /\ admin_browse.cache # <<>>
    /\ admin_browse' =
          [admin_browse EXCEPT !.index =
              IF browse_idx(admin_browse) + 1 <= Len(admin_browse.cache) - 1
              THEN browse_idx(admin_browse) + 1
              ELSE Len(admin_browse.cache) - 1]
    /\ UNCHANGED <<team_members, writeups, next_writeup_id, hooks, slack, mgr, adm, args, ret, users, session_state>>

\* "Delete this write-up": pending_delete_writeup_id = w["id"].
BrowseRequestDelete ==
    /\ admin_browse.cache # <<>>
    /\ adm' = [pc |-> "confirm_writeup",
               pending_delete_writeup_id |-> browse_displayed(admin_browse).id]
    /\ admin_browse' = [admin_browse EXCEPT !.index = browse_idx(admin_browse)]
    /\ UNCHANGED <<team_members, writeups, next_writeup_id, hooks, slack, mgr, args, ret, users, session_state>>

\* "Cancel": pending_delete_writeup_id = None.
BrowseCancelDelete ==
    /\ admin_browse.cache # <<>>
    /\ adm.pc = "confirm_writeup"
    /\ adm' = AdmIdle
    /\ admin_browse' = [admin_browse EXCEPT !.index = browse_idx(admin_browse)]
    /\ UNCHANGED <<team_members, writeups, next_writeup_id, hooks, slack, mgr, args, ret, users, session_state>>

\* Faulty variant: YES deletes the write-up displayed, not the pending one
BrowseConfirmDelete_deletes_displayed ==
    /\ admin_browse.cache # <<>>
    /\ adm.pc = "confirm_writeup"
    /\ writeups' = {w \in writeups : w.id # browse_displayed(admin_browse).id}
    /\ admin_browse' = [cache |-> <<>>, index |-> Max(0, browse_idx(admin_browse) - 1)]
    /\ adm' = AdmRerun
    /\ UNCHANGED <<team_members, next_writeup_id, hooks, slack, mgr, args, ret, users, session_state>>

\* "YES - Delete permanently": delete_writeup(pending_delete_writeup_id), the
\* cache is emptied, admin_browse_index = max(0, idx - 1), the pending id is
\* cleared, st.rerun().
BrowseConfirmDelete ==
    /\ admin_browse.cache # <<>>
    /\ adm.pc = "confirm_writeup"
    /\ writeups' = {w \in writeups : w.id # adm.pending_delete_writeup_id}
    /\ admin_browse' = [cache |-> <<>>, index |-> Max(0, browse_idx(admin_browse) - 1)]
    /\ adm' = AdmRerun
    /\ UNCHANGED <<team_members, next_writeup_id, hooks, slack, mgr, args, ret, users, session_state>>

NextBrowser ==
    \/ main(manager_mode(MgrSelectMember))
    \/ main(manager_mode(MgrSubmitWith({ATTENDANCE}, {0}, {10}, BrowseDates)))
    \/ main(admin_mode(BrowseRender))
    \/ main(admin_mode(BrowseReload))
    \/ main(admin_mode(BrowsePrevious))
    \/ main(admin_mode(BrowseNext))
    \/ main(admin_mode(BrowseRequestDelete))
    \/ main(admin_mode(BrowseCancelDelete))
    \/ main(admin_mode(BrowseConfirmDelete))

SpecBrowser == InitBrowser /\ [][NextBrowser]_vars

\* C24: a write-up leaves the store only in a step taken while a delete is
\* pending, and the step removes exactly the write-up with the pending id
\* and clears the pending id; the pending id is only ever set to the id of
\* the write-up displayed at that press of "Delete this write-up", so
\* Previous, Next and Reload leave it as it is and Cancel removes it.
C24_DeletesWhatWasRequested ==
    [][/\ writeups' # writeups /\ writeups' \subseteq writeups =>
            /\ adm.pc = "confirm_writeup"
            /\ writeups \ writeups' = {w \in writeups : w.id = adm.pending_delete_writeup_id}
            /\ adm'.pc # "confirm_writeup"
       /\ adm'.pc = "confirm_writeup" /\ adm' # adm =>
            /\ admin_browse.cache # <<>>
            /\ adm'.pending_delete_writeup_id = browse_displayed(admin_browse).id
       /\ adm.pc = "confirm_writeup" /\ admin_browse'.index # admin_browse.index =>
            \/ adm' = adm
            \/ adm'.pc # "confirm_writeup"]_vars

\* Three write-ups were stored; the deletion of write-up 3 was requested, and
\* YES was pressed while the browser displayed the last position, which
\* held write-up 2 (3 is newer than 2 and dated no earlier, so it is listed
\* before it): write-up 3 is gone and write-up 2 is still stored.
C24_Witness ==
    /\ adm = AdmRerun
    /\ admin_browse = [cache |-> <<>>, index |-> 1]
    /\ next_writeup_id = 4
    /\ writeups = {writeup_row(1, 1, ATTENDANCE, 10, Date(2025, 4, 1), MANAGER),
                   writeup_row(2, 1, ATTENDANCE, 10, Date(2025, 3, 31), MANAGER)}

\* C25 as stated: the run that follows a confirmed delete at position idx
\* reloads the list and displays position max(0, idx - 1) of it (the last
\* position when the reloaded list is shorter than that).
C25_DeleteShowsPreviousPosition ==
    [][adm = AdmRerun /\ admin_browse'.cache # <<>> =>
          browse_idx(admin_browse') =
              Max(0, IF admin_browse.index <= Len(admin_browse'.cache) - 1
                     THEN admin_browse.index
                     ELSE Len(admin_browse'.cache) - 1)]_vars

=============================================================================
